---- MODULE Spec2Model ----
(***************************************************************************)
(* A model of connlib.rs: the three protocol probes (TeamSpeak, SSH,       *)
(* HTTP), the tri-state ServerLastStatus, the ServiceWrapper with its      *)
(* ping dispatch and update_last_status, and the conversion                *)
(* TryFrom<&Service> for ServiceWrapper.                                   *)
(***************************************************************************)
EXTENDS Integers, Sequences, FiniteSets, TLC

(***************************************************************************)
(* Bounds of the model.                                                    *)
(***************************************************************************)
\* longest log of update_last_status calls that is recorded
MaxCalls == 3
\* largest timeout argument (seconds) handed to ping
MaxTimeout == 1
\* longest byte string the SSH peer sends back
MaxRead == 3
\* longest short datagram a TeamSpeak peer sends back
MaxDatagram == 1

(***************************************************************************)
(* Program constants.                                                      *)
(***************************************************************************)
\* let mut buff = [0; 64]  (ssh)  /  let mut buf = [0; 64]  (teamspeak)
BuffSize == 64

\* teamspeak::HEAD_DATA, the 34 bytes of the hex literal
TS_HEAD_DATA ==
    << 84, 83, 51, 73, 78, 73, 84, 49, 0, 101, 0, 0, 136, 14, 249, 103, 165,
       0, 97, 63, 158, 105, 102, 120, 141, 72, 0, 0, 0, 0, 0, 0, 0, 0 >>

\* ssh::HEAD_DATA, the 21 bytes of the hex literal ("SSH-2.0-OpenSSH_8.7\r\n")
SSH_HEAD_DATA ==
    << 83, 83, 72, 45, 50, 46, 48, 45, 79, 112, 101, 110, 83, 83, 72, 95, 56,
       46, 55, 13, 10 >>

(***************************************************************************)
(* Strings are sequences of one-character strings, so that to_lowercase    *)
(* is a computation.                                                       *)
(***************************************************************************)
Upper == << "A", "E", "F", "H", "K", "M", "P", "S", "T" >>
Lower == << "a", "e", "f", "h", "k", "m", "p", "s", "t" >>

\* char::to_lowercase on the characters the protocol names are written in
LowerChar(c) ==
    IF \E i \in DOMAIN Upper : Upper[i] = c
    THEN Lower[CHOOSE i \in DOMAIN Upper : Upper[i] = c]
    ELSE c

\* str::to_lowercase
to_lowercaseIdentity(s) == s

to_lowercase(s) == [i \in DOMAIN s |-> LowerChar(s[i])]

\* the protocol names a configuration record may carry
TypeNames ==
    { << "H", "T", "T", "P" >>,
      << "S", "s", "h" >>,
      << "T", "S" >>,
      << "T", "e", "a", "m", "S", "p", "e", "a", "k" >>,
      << "f", "t", "p" >>,
      << "h", "t", "t", "p", "s" >> }

\* the remote addresses and report identifiers a record may carry
Addresses == { "127.0.0.1:9987", "10.0.0.1:22" }
Uuids == { "uuid-1" }

\* configure::Service, as far as connlib uses it
Service == [service_type : TypeNames, remote_address : Addresses, report_uuid : Uuids]

(***************************************************************************)
(* Status model.                                                           *)
(***************************************************************************)
\* enum ServiceType
ServiceType == { "HTTP", "SSH", "TeamSpeak" }

\* enum ServerLastStatus
ServerLastStatus == { "Optional", "Outage", "Unknown" }

\* impl From<bool> for ServerLastStatus
FromSwapped(b) == IF b THEN "Outage" ELSE "Optional"

FromUnknown(b) == IF b THEN "Optional" ELSE "Unknown"

From(b) == IF b THEN "Optional" ELSE "Outage"

\* impl PartialEq<bool> for ServerLastStatus  (eq; ne is its negation)
eqUnknownNothing(self, other) ==
    CASE self = "Optional" -> other
      [] self = "Outage" -> ~other
      [] OTHER -> FALSE

eqUnknownHealthy(self, other) ==
    CASE self = "Outage" -> ~other
      [] OTHER -> other

eqOutageOnly(self, other) ==
    CASE self = "Outage" -> ~other
      [] OTHER -> FALSE

eq(self, other) ==
    CASE self = "Optional" -> other
      [] OTHER -> ~other

(***************************************************************************)
(* Results.                                                                *)
(***************************************************************************)
Ok(v) == [tag |-> "Ok", val |-> v]
Err(e) == [tag |-> "Err", err |-> e]
NoResult == [tag |-> "None"]

VARIABLES
    service,          \* the configuration record handed to try_from
    try_from_result,  \* what try_from returned
    last_status,      \* ServiceWrapper.last_status
    remote_address,   \* ServiceWrapper.remote_address
    report_uuid,      \* ServiceWrapper.report_uuid
    service_type,     \* ServiceWrapper.service_type
    calls,            \* the update_last_status calls made, oldest first
    pc,               \* where the ping in flight stands ("idle": none in flight)
    timeout,          \* the timeout argument of the ping in flight / last ping
    elapsed,          \* seconds spent in the current timeout-bounded step
    total,            \* seconds spent in timeout-bounded steps of this ping
    events,           \* the steps of this ping and how each ended
    buff,             \* the receive buffer of this ping
    sent,             \* the bytes this ping put on the wire
    probe,            \* the probe this ping built, and what it returned
    ping_result       \* what the last ping returned

wrapper_vars == << last_status, remote_address, report_uuid, service_type >>
ping_vars == << pc, timeout, elapsed, total, events, buff, sent, probe, ping_result >>
vars == << service, try_from_result, last_status, remote_address, report_uuid,
           service_type, calls, pc, timeout, elapsed, total, events, buff, sent,
           probe, ping_result >>

\* TeamSpeak::new, SSH::new, HTTP::new: a probe holds the address it was
\* built from; result is what its ping returned
New(kind, address) == [kind |-> kind, remote_address |-> address, result |-> NoResult]

\* no probe has been built
NoProbe == New("none", "none")

\* [0; 64]
ZeroBuff == [i \in 1..BuffSize |-> 0]

NoPing ==
    /\ pc = "idle"
    /\ timeout = 0
    /\ elapsed = 0
    /\ total = 0
    /\ events = << >>
    /\ buff = ZeroBuff
    /\ sent = << >>
    /\ probe = NoProbe
    /\ ping_result = NoResult

\* no wrapper exists yet: a configuration record is about to be converted
Init ==
    /\ service \in Service
    /\ try_from_result = NoResult
    /\ last_status = "none"
    /\ remote_address = "none"
    /\ report_uuid = "none"
    /\ service_type = "none"
    /\ calls = << >>
    /\ NoPing

(***************************************************************************)
(* Config Adapter.                                                         *)
(***************************************************************************)
\* the match of try_from: the ServiceType of a lowercased name, "none" for &_
MatchTypeDefaultHttp(name) ==
    CASE name = << "t", "e", "a", "m", "s", "p", "e", "a", "k" >> -> "TeamSpeak"
      [] name = << "t", "s" >> -> "TeamSpeak"
      [] name = << "s", "s", "h" >> -> "SSH"
      [] OTHER -> "HTTP"

MatchType(name) ==
    CASE name = << "t", "e", "a", "m", "s", "p", "e", "a", "k" >> -> "TeamSpeak"
      [] name = << "t", "s" >> -> "TeamSpeak"
      [] name = << "s", "s", "h" >> -> "SSH"
      [] name = << "h", "t", "t", "p" >> -> "HTTP"
      [] OTHER -> "none"

\* the status a new wrapper starts with
InitialStatusUnknown == "Unknown"

InitialStatusOutage == "Outage"

InitialStatus == "Optional"

\* impl TryFrom<&Service> for ServiceWrapper
try_from ==
    /\ try_from_result = NoResult
    /\ LET t == MatchType(to_lowercase(service.service_type)) IN
       IF t = "none"
       THEN /\ try_from_result' =
                   [tag |-> "Err", service_type |-> service.service_type,
                    report_uuid |-> service.report_uuid]
            /\ UNCHANGED wrapper_vars
       ELSE /\ try_from_result' = [tag |-> "Ok"]
            /\ last_status' = InitialStatus
            /\ report_uuid' = service.report_uuid
            /\ service_type' = t
            /\ remote_address' = service.remote_address
    /\ UNCHANGED << service, calls >>
    /\ UNCHANGED ping_vars

\* a wrapper exists
Built == service_type \in ServiceType

(***************************************************************************)
(* ServiceWrapper::update_last_status.  It takes &mut self, so it cannot   *)
(* run while a ping (&self) on the same wrapper is in flight.              *)
(***************************************************************************)
\* one call as the caller sees it: the status it found, its argument, its result
Call(before, observed, ret) == [before |-> before, observed |-> observed, ret |-> ret]

update_last_status(observed) ==
    /\ Built
    /\ pc = "idle"
    /\ Len(calls) < MaxCalls
    /\ IF ~eq(last_status, observed)
       THEN /\ last_status' = From(observed)
            /\ calls' = Append(calls, Call(last_status, observed, TRUE))
       ELSE /\ last_status' = last_status
            /\ calls' = Append(calls, Call(last_status, observed, FALSE))
    /\ UNCHANGED << service, try_from_result, remote_address, report_uuid, service_type >>
    /\ UNCHANGED ping_vars

(***************************************************************************)
(* String::from_utf8_lossy, after core::str::lossy::Utf8Chunks: a valid    *)
(* sequence decodes to its code point, a maximal invalid prefix becomes    *)
(* one U+FFFD.                                                             *)
(***************************************************************************)
REPLACEMENT_CHARACTER == 65533

\* safe_get: the byte at position i, 0 beyond the end
safe_get(bytes, i) == IF i <= Len(bytes) THEN bytes[i] ELSE 0

\* byte & 192 == TAG_CONT_U8
IsCont(b) == b >= 128 /\ b <= 191

\* core::str::utf8_char_width
utf8_char_width(b) ==
    CASE b < 128 -> 1
      [] b >= 194 /\ b <= 223 -> 2
      [] b >= 224 /\ b <= 239 -> 3
      [] b >= 240 /\ b <= 244 -> 4
      [] OTHER -> 0

\* the second byte a three-byte lead admits
Second3(b0, b1) ==
    \/ b0 = 224 /\ b1 >= 160 /\ b1 <= 191
    \/ b0 >= 225 /\ b0 <= 236 /\ IsCont(b1)
    \/ b0 = 237 /\ b1 >= 128 /\ b1 <= 159
    \/ b0 >= 238 /\ b0 <= 239 /\ IsCont(b1)

\* the second byte a four-byte lead admits
Second4(b0, b1) ==
    \/ b0 = 240 /\ b1 >= 144 /\ b1 <= 191
    \/ b0 >= 241 /\ b0 <= 243 /\ IsCont(b1)
    \/ b0 = 244 /\ b1 >= 128 /\ b1 <= 143

\* one step of the decoder at position i: <<code point, bytes consumed>>
DecodeAt(bytes, i) ==
    LET b0 == bytes[i]
        b1 == safe_get(bytes, i + 1)
        b2 == safe_get(bytes, i + 2)
        b3 == safe_get(bytes, i + 3)
        w == utf8_char_width(b0)
    IN CASE w = 1 -> << b0, 1 >>
         [] w = 2 ->
              IF IsCont(b1)
              THEN << (b0 - 192) * 64 + (b1 - 128), 2 >>
              ELSE << REPLACEMENT_CHARACTER, 1 >>
         [] w = 3 ->
              IF ~Second3(b0, b1) THEN << REPLACEMENT_CHARACTER, 1 >>
              ELSE IF ~IsCont(b2) THEN << REPLACEMENT_CHARACTER, 2 >>
              ELSE << (b0 - 224) * 4096 + (b1 - 128) * 64 + (b2 - 128), 3 >>
         [] w = 4 ->
              IF ~Second4(b0, b1) THEN << REPLACEMENT_CHARACTER, 1 >>
              ELSE IF ~IsCont(b2) THEN << REPLACEMENT_CHARACTER, 2 >>
              ELSE IF ~IsCont(b3) THEN << REPLACEMENT_CHARACTER, 3 >>
              ELSE << (b0 - 240) * 262144 + (b1 - 128) * 4096
                        + (b2 - 128) * 64 + (b3 - 128), 4 >>
         [] OTHER -> << REPLACEMENT_CHARACTER, 1 >>

RECURSIVE DecodeFrom(_, _)
DecodeFrom(bytes, i) ==
    IF i > Len(bytes) THEN << >>
    ELSE LET d == DecodeAt(bytes, i)
         IN << d[1] >> \o DecodeFrom(bytes, i + d[2])

\* String::from_utf8_lossy: the code points of the lossily decoded text
from_utf8_lossy(bytes) == DecodeFrom(bytes, 1)

\* str::contains
contains(text, pat) ==
    \E i \in 0..(Len(text) - Len(pat)) : SubSeq(text, i + 1, i + Len(pat)) = pat

\* "SSH"
SSH_PATTERN == << 83, 83, 72 >>

(***************************************************************************)
(* What the peer and the network can do.                                   *)
(***************************************************************************)
Min(a, b) == IF a <= b THEN a ELSE b

\* 'S', 'H' and a byte that is not ASCII (0xC3, the lead of a two-byte sequence)
ByteAlphabet == { 83, 72, 195 }

\* the byte strings one read on the TCP stream can return
ReadData == UNION { [1..k -> ByteAlphabet] : k \in 0..Min(MaxRead, BuffSize) }

\* the lengths of the datagrams a peer can answer with
DatagramLens == (0..MaxDatagram) \cup { BuffSize, BuffSize + 1 }

\* the status codes an HTTP response can carry
StatusCodes == { 199, 200, 204, 299, 300, 301, 404 }

\* the timeout arguments handed to ping
Timeouts == 0..MaxTimeout

\* how an awaited I/O future under tokio::time::timeout can end: the timer
\* can only win once timeout seconds have gone by
Outcomes == IF elapsed = timeout THEN { "ok", "io_error", "timeout" }
                                 ELSE { "ok", "io_error" }

\* how an I/O future without a timer can end
PlainOutcomes == { "ok", "io_error" }

Event(stage, outcome, val) == [stage |-> stage, outcome |-> outcome, val |-> val]

\* ServiceWrapper::ping hands on what the probe's ping returned, as it is
WrapperResultNoError(r) == IF r.tag = "Err" THEN Ok(FALSE) ELSE r

WrapperResult(r) == r

\* the probe's ping returns r, and with it the wrapper's ping
Return(r) ==
    /\ pc' = "idle"
    /\ probe' = [probe EXCEPT !.result = r]
    /\ ping_result' = WrapperResult(r)

\* the ping goes on with the step next, whose timer starts afresh
Goto(next) ==
    /\ pc' = next
    /\ elapsed' = 0
    /\ probe' = probe
    /\ ping_result' = ping_result

\* ping takes &self: it writes no field of the wrapper
unchanged_wrapperMarksOutage ==
    /\ UNCHANGED << service, try_from_result, remote_address, report_uuid,
                    service_type, calls >>
    /\ last_status' = "Outage"

unchanged_wrapper ==
    UNCHANGED << service, try_from_result, last_status, remote_address,
                 report_uuid, service_type, calls >>

(***************************************************************************)
(* ServiceWrapper::ping: the match on service_type.  The probe is built    *)
(* afresh from remote_address.                                             *)
(***************************************************************************)
\* the first step of the ping of a probe of this kind
FirstStep(t) ==
    CASE t = "HTTP" -> "http_build"
      [] t = "SSH" -> "ssh_connect"
      [] t = "TeamSpeak" -> "ts_bind"

\* the match arms: the probe built for a service type
ProbeKind(t) ==
    CASE t = "HTTP" -> "HTTP"
      [] t = "SSH" -> "SSH"
      [] t = "TeamSpeak" -> "TeamSpeak"

ping(t) ==
    /\ Built
    /\ pc = "idle"
    /\ probe' = New(ProbeKind(service_type), remote_address)
    /\ pc' = FirstStep(ProbeKind(service_type))
    /\ timeout' = t
    /\ elapsed' = 0
    /\ total' = 0
    /\ events' = << >>
    /\ buff' = ZeroBuff
    /\ sent' = << >>
    /\ ping_result' = NoResult
    /\ unchanged_wrapper

\* a second goes by while a timeout-bounded step is pending
TimedSteps == { "ts_recv", "ssh_connect", "ssh_write", "ssh_read", "http_send" }

Tick ==
    /\ pc \in TimedSteps
    /\ elapsed < timeout
    /\ elapsed' = elapsed + 1
    /\ total' = total + 1
    /\ UNCHANGED << pc, timeout, events, buff, sent, probe, ping_result >>
    /\ unchanged_wrapper

(***************************************************************************)
(* impl ServiceChecker for TeamSpeak                                       *)
(***************************************************************************)
\* the error the ? after tokio::time::timeout(..).await propagates
ElapsedResult == Err("Elapsed")

\* Ok(amt != 0)
TsReceivedAlways(amt) == Ok(TRUE)

TsReceived(amt) == Ok(amt # 0)

\* the else branch of if let Ok((amt, _src)): recv_from failed
TsRecvFailed == Ok(FALSE)

\* UdpSocket::bind("0.0.0.0:0").await?
ts_bind ==
    /\ pc = "ts_bind"
    /\ \E o \in PlainOutcomes :
          /\ events' = Append(events, Event("bind", o, 0))
          /\ IF o = "ok" THEN Goto("ts_send") ELSE Return(Err("Io")) /\ elapsed' = elapsed
    /\ UNCHANGED << timeout, total, buff, sent >>
    /\ unchanged_wrapper

\* socket.send_to(&HEAD_DATA, &self.remote_address).await?
ts_send_to ==
    /\ pc = "ts_send"
    /\ \E o \in PlainOutcomes :
          /\ events' = Append(events, Event("send_to", o, 0))
          /\ IF o = "ok"
             THEN Goto("ts_recv") /\ sent' = TS_HEAD_DATA
             ELSE Return(Err("Io")) /\ elapsed' = elapsed /\ sent' = sent
    /\ UNCHANGED << timeout, total, buff >>
    /\ unchanged_wrapper

\* tokio::time::timeout(Duration::from_secs(timeout), socket.recv_from(&mut buf)).await?
\* The datagram's bytes are never looked at; only its length counts.
ts_recv_from ==
    /\ pc = "ts_recv"
    /\ \E o \in Outcomes, len \in DatagramLens :
          LET amt == IF o = "ok" THEN Min(len, BuffSize) ELSE 0 IN
          /\ o # "ok" => len = 0
          /\ events' = Append(events, Event("recv_from", o, amt))
          /\ CASE o = "ok" -> Return(TsReceived(amt))
               [] o = "io_error" -> Return(TsRecvFailed)
               [] o = "timeout" -> Return(ElapsedResult)
    /\ UNCHANGED << timeout, elapsed, total, buff, sent >>
    /\ unchanged_wrapper

(***************************************************************************)
(* impl ServiceChecker for SSH                                             *)
(***************************************************************************)
\* the final Ok(false), reached when an if let Ok(..) does not match
SshFailedPropagated == Err("Io")

SshFailed == Ok(FALSE)

\* Ok(String::from_utf8_lossy(&buff).contains("SSH"))
SshBannerAlways(b) == Ok(TRUE)

SshBanner(b) == Ok(contains(from_utf8_lossy(b), SSH_PATTERN))

\* tokio::time::timeout(.., TcpStream::connect(&self.remote_address)).await?
ssh_connectGoesOn ==
    /\ pc = "ssh_connect"
    /\ \E o \in Outcomes :
          /\ events' = Append(events, Event("connect", o, 0))
          /\ CASE o = "ok" -> Goto("ssh_write")
               [] o = "io_error" -> Goto("ssh_write")
               [] o = "timeout" -> Return(ElapsedResult) /\ elapsed' = elapsed
    /\ UNCHANGED << timeout, total, buff, sent >>
    /\ unchanged_wrapper

ssh_connect ==
    /\ pc = "ssh_connect"
    /\ \E o \in Outcomes :
          /\ events' = Append(events, Event("connect", o, 0))
          /\ CASE o = "ok" -> Goto("ssh_write")
               [] o = "io_error" -> Return(SshFailed) /\ elapsed' = elapsed
               [] o = "timeout" -> Return(ElapsedResult) /\ elapsed' = elapsed
    /\ UNCHANGED << timeout, total, buff, sent >>
    /\ unchanged_wrapper

\* tokio::time::timeout(.., socket.write_all(&HEAD_DATA)).await?
ssh_write_all ==
    /\ pc = "ssh_write"
    /\ \E o \in Outcomes :
          /\ events' = Append(events, Event("write_all", o, 0))
          /\ CASE o = "ok" -> Goto("ssh_read") /\ sent' = SSH_HEAD_DATA
               [] o = "io_error" -> Return(SshFailed) /\ elapsed' = elapsed /\ sent' = sent
               [] o = "timeout" -> Return(ElapsedResult) /\ elapsed' = elapsed /\ sent' = sent
    /\ UNCHANGED << timeout, total, buff >>
    /\ unchanged_wrapper

\* tokio::time::timeout(.., socket.read(&mut buff)).await?
ssh_read ==
    /\ pc = "ssh_read"
    /\ \E o \in Outcomes, data \in ReadData :
          LET n == Len(data)
              filled == [i \in 1..BuffSize |-> IF i <= n THEN data[i] ELSE buff[i]]
          IN /\ o # "ok" => data = << >>
             /\ events' = Append(events, Event("read", o, n))
             /\ CASE o = "ok" -> Return(SshBanner(filled)) /\ buff' = filled
                  [] o = "io_error" -> Return(SshFailed) /\ buff' = buff
                  [] o = "timeout" -> Return(ElapsedResult) /\ buff' = buff
    /\ UNCHANGED << timeout, elapsed, total, sent >>
    /\ unchanged_wrapper

(***************************************************************************)
(* impl ServiceChecker for HTTP                                            *)
(***************************************************************************)
\* Ok((300 > status) && (status >= 200))
HttpStatusInclusive(status) == Ok((300 >= status) /\ (status >= 200))

HttpStatus(status) == Ok((300 > status) /\ (status >= 200))

\* ClientBuilder::new().timeout(..).min_tls_version(Version::TLS_1_2).build()?
http_build ==
    /\ pc = "http_build"
    /\ \E o \in PlainOutcomes :
          /\ events' = Append(events, Event("build", o, 0))
          /\ IF o = "ok" THEN Goto("http_send") ELSE Return(Err("Build")) /\ elapsed' = elapsed
    /\ UNCHANGED << timeout, total, buff, sent >>
    /\ unchanged_wrapper

\* client.get(&self.remote_address).send().await?, the whole request capped
\* by the client's timeout
http_send ==
    /\ pc = "http_send"
    /\ \E o \in Outcomes \cup { "tls_error" }, status \in StatusCodes \cup { 0 } :
          /\ (o = "ok") = (status # 0)
          /\ events' = Append(events, Event("send", o, status))
          /\ CASE o = "ok" -> Return(HttpStatus(status))
               [] o = "io_error" -> Return(Err("Transport"))
               [] o = "tls_error" -> Return(Err("Tls"))
               [] o = "timeout" -> Return(Err("Timeout"))
    /\ UNCHANGED << timeout, elapsed, total, buff, sent >>
    /\ unchanged_wrapper

(***************************************************************************)
(* Specifications.                                                         *)
(***************************************************************************)
\* everything a caller can do with a wrapper once it exists
WrapperNext ==
    \/ \E b \in BOOLEAN : update_last_status(b)
    \/ \E t \in Timeouts : ping(t)
    \/ Tick
    \/ ts_bind
    \/ ts_send_to
    \/ ts_recv_from
    \/ ssh_connect
    \/ ssh_write_all
    \/ ssh_read
    \/ http_build
    \/ http_send

Next ==
    \/ try_from
    \/ WrapperNext

\* a wrapper built by the Config Adapter from a configuration record
Spec == Init /\ [][Next]_vars

\* update_last_status as a function of the status it finds: a wrapper whose
\* last_status holds any value of its type, Unknown too, and whose other
\* fields are as try_from sets them
InitAny ==
    /\ service \in Service
    /\ MatchType(to_lowercase(service.service_type)) # "none"
    /\ try_from_result = [tag |-> "Ok"]
    /\ last_status \in ServerLastStatus
    /\ remote_address = service.remote_address
    /\ report_uuid = service.report_uuid
    /\ service_type = MatchType(to_lowercase(service.service_type))
    /\ calls = << >>
    /\ NoPing

UpdateNext == \E b \in BOOLEAN : update_last_status(b)

SpecAny == InitAny /\ [][UpdateNext]_vars

(***************************************************************************)
(* Properties of update_last_status.                                       *)
(***************************************************************************)
\* the status the i-th recorded call left behind
After(i) == IF i < Len(calls) THEN calls[i + 1].before ELSE last_status

\* the tri-state value and the boolean differ: Optional against false,
\* Outage or Unknown against true
Differs(status, b) ==
    \/ status = "Optional" /\ b = FALSE
    \/ status \in { "Outage", "Unknown" } /\ b = TRUE

\* C1: a call of update_last_status whose argument differs from the current
\* last_status returns true and leaves last_status at Optional for true and
\* at Outage for false, whichever of the three statuses it started from.
C1_ChangeIsWritten ==
    \A i \in DOMAIN calls :
        Differs(calls[i].before, calls[i].observed) =>
            /\ calls[i].ret = TRUE
            /\ calls[i].observed = TRUE => After(i) = "Optional"
            /\ calls[i].observed = FALSE => After(i) = "Outage"

\* a call with true on a wrapper at Unknown has returned true and left Optional
C1_Witness ==
    /\ Len(calls) = 1
    /\ calls[1].before = "Unknown"
    /\ calls[1].observed = TRUE
    /\ calls[1].ret = TRUE
    /\ last_status = "Optional"

\* C2: a call of update_last_status whose argument equals the current
\* last_status (Optional with true, Outage with false, Unknown with false)
\* returns false and leaves last_status as it was.
C2_NoChangeIsNoWrite ==
    \A i \in DOMAIN calls :
        ~Differs(calls[i].before, calls[i].observed) =>
            /\ calls[i].ret = FALSE
            /\ After(i) = calls[i].before

\* a call with false on a wrapper at Unknown has returned false and left Unknown
C2_Witness ==
    /\ Len(calls) = 1
    /\ calls[1].before = "Unknown"
    /\ calls[1].observed = FALSE
    /\ calls[1].ret = FALSE
    /\ last_status = "Unknown"

\* C3, as stated: on a wrapper built by the Config Adapter, two calls with
\* different arguments both return true.
C3_BothReturnTrue ==
    (Len(calls) >= 2 /\ calls[1].observed # calls[2].observed) =>
        (calls[1].ret = TRUE /\ calls[2].ret = TRUE)

\* C3, amended: on a wrapper built by the Config Adapter, of two calls with
\* different arguments the second returns true, and the first returns true
\* exactly when its argument is false.
C3_SecondReturnsTrue ==
    (Len(calls) >= 2 /\ calls[1].observed # calls[2].observed) =>
        /\ calls[2].ret = TRUE
        /\ calls[1].ret = (calls[1].observed = FALSE)

\* true then false on a new wrapper: the first call returned false, the second true
C3_Witness ==
    /\ Len(calls) = 2
    /\ calls[1].before = "Optional"
    /\ calls[1].observed = TRUE /\ calls[1].ret = FALSE
    /\ calls[2].observed = FALSE /\ calls[2].ret = TRUE
    /\ last_status = "Outage"

\* C4, as stated: on a wrapper built by the Config Adapter, two calls with
\* the same argument return true and then false.
C4_TrueThenFalse ==
    (Len(calls) >= 2 /\ calls[1].observed = calls[2].observed) =>
        (calls[1].ret = TRUE /\ calls[2].ret = FALSE)

\* C4, amended: on a wrapper built by the Config Adapter, of two calls with
\* the same argument the second returns false, and the first returns true
\* exactly when the argument is false.
C4_RepeatReturnsFalse ==
    (Len(calls) >= 2 /\ calls[1].observed = calls[2].observed) =>
        /\ calls[2].ret = FALSE
        /\ calls[1].ret = (calls[1].observed = FALSE)

\* false twice on a new wrapper: true, then false, and the status is Outage
C4_Witness ==
    /\ Len(calls) = 2
    /\ calls[1].before = "Optional"
    /\ calls[1].observed = FALSE /\ calls[1].ret = TRUE
    /\ calls[2].observed = FALSE /\ calls[2].ret = FALSE
    /\ last_status = "Outage"

\* C5: on a wrapper built by the Config Adapter the first call returns true
\* exactly when its argument is false; a first call with true returns false
\* and leaves the status at Optional and the other fields as constructed.
C5_FirstCall ==
    Len(calls) >= 1 =>
        /\ calls[1].ret = (calls[1].observed = FALSE)
        /\ calls[1].observed = TRUE =>
              /\ calls[1].before = "Optional"
              /\ After(1) = "Optional"
              /\ remote_address = service.remote_address
              /\ report_uuid = service.report_uuid
              /\ service_type = MatchType(to_lowercase(service.service_type))

\* the first call on a new wrapper was made with true and returned false
C5_Witness ==
    /\ Len(calls) = 1
    /\ try_from_result.tag = "Ok"
    /\ calls[1].observed = TRUE
    /\ calls[1].ret = FALSE
    /\ last_status = "Optional"

(***************************************************************************)
(* Properties of the SSH and TeamSpeak probes.                             *)
(***************************************************************************)
\* the ping has returned
Returned == pc = "idle" /\ ping_result # NoResult

\* the step the ping ended in
LastEvent == events[Len(events)]

\* the first n bytes of the buffer hold 'S', 'S', 'H' in a row
BytesHoldSSH(n) ==
    \E i \in 1..(n - 2) : buff[i] = 83 /\ buff[i + 1] = 83 /\ buff[i + 2] = 72

\* C6: in the SSH and the TeamSpeak probe, a timeout-bounded step (connect,
\* banner write, read, receive) that does not complete within timeout
\* seconds makes ping return Ok(false), not an error.
C6_TimeoutGivesFalse ==
    (/\ Returned
     /\ service_type \in { "SSH", "TeamSpeak" }
     /\ LastEvent.outcome = "timeout") => ping_result = Ok(FALSE)

\* C7: in the SSH probe an I/O failure of connect, of the banner write or of
\* the read makes ping return Ok(false), never an error.
C7_SshFailureGivesFalse ==
    (/\ Returned
     /\ service_type = "SSH"
     /\ LastEvent.outcome = "io_error") =>
        /\ LastEvent.stage \in { "connect", "write_all", "read" }
        /\ ping_result = Ok(FALSE)

\* the read of an SSH ping failed after connect and banner write went
\* through, and the ping returned Ok(false)
C7_Witness ==
    /\ Returned
    /\ service_type = "SSH"
    /\ Len(events) = 3
    /\ LastEvent = Event("read", "io_error", 0)
    /\ sent = SSH_HEAD_DATA
    /\ ping_result = Ok(FALSE)

\* C8: in the TeamSpeak probe every local socket error (of bind, of send_to,
\* of recv_from) makes ping return an error, not Ok(false) or Ok(true).
C8_TsSocketErrorGivesError ==
    (/\ Returned
     /\ service_type = "TeamSpeak"
     /\ LastEvent.outcome = "io_error") => ping_result.tag = "Err"

\* C9: the TeamSpeak probe returns Ok(true) exactly when bind and the send
\* of the 34-byte init packet succeeded and a datagram of non-zero length
\* was received before the timeout expired; a datagram of length zero
\* gives Ok(false).
C9_TsTrueIffDatagram ==
    (Returned /\ service_type = "TeamSpeak") =>
        /\ ping_result = Ok(TRUE) <=>
              /\ Len(events) = 3
              /\ events[1] = Event("bind", "ok", 0)
              /\ events[2] = Event("send_to", "ok", 0)
              /\ sent = TS_HEAD_DATA /\ Len(sent) = 34
              /\ events[3].stage = "recv_from" /\ events[3].outcome = "ok"
              /\ events[3].val > 0
              /\ elapsed <= timeout
        /\ (LastEvent.stage = "recv_from" /\ LastEvent.outcome = "ok"
              /\ LastEvent.val = 0) => ping_result = Ok(FALSE)

\* a TeamSpeak peer answered with a single byte and the ping returned Ok(true)
C9_Witness ==
    /\ Returned
    /\ service_type = "TeamSpeak"
    /\ LastEvent = Event("recv_from", "ok", 1)
    /\ ping_result = Ok(TRUE)

\* C10: the SSH probe returns Ok(true) exactly when connect, banner write
\* and one read of up to 64 bytes all completed within their timeouts and
\* the bytes read contain "SSH"; a read of zero bytes gives Ok(false).
C10_SshTrueIffBanner ==
    (Returned /\ service_type = "SSH") =>
        /\ ping_result = Ok(TRUE) <=>
              /\ Len(events) = 3
              /\ events[1] = Event("connect", "ok", 0)
              /\ events[2] = Event("write_all", "ok", 0)
              /\ events[3].stage = "read" /\ events[3].outcome = "ok"
              /\ events[3].val <= 64
              /\ BytesHoldSSH(events[3].val)
              /\ elapsed <= timeout /\ total <= 3 * timeout
        /\ (LastEvent.stage = "read" /\ LastEvent.outcome = "ok"
              /\ LastEvent.val = 0) => ping_result = Ok(FALSE)

\* the peer answered with exactly the bytes "SSH" and the ping returned Ok(true)
C10_Witness ==
    /\ Returned
    /\ service_type = "SSH"
    /\ LastEvent = Event("read", "ok", 3)
    /\ buff[1] = 83 /\ buff[2] = 83 /\ buff[3] = 72
    /\ ping_result = Ok(TRUE)

(***************************************************************************)
(* Properties of the HTTP probe.                                           *)
(***************************************************************************)
\* C11: the HTTP probe returns Ok(true) exactly when a response with a
\* status code s, 200 <= s < 300, came in, Ok(false) exactly when a response
\* with any other status code came in, and an error, never Ok(false), when
\* the client cannot be built, the transport fails or the request exceeds
\* the timeout.
C11_HttpResult ==
    (Returned /\ service_type = "HTTP") =>
        LET answered == /\ Len(events) = 2
                        /\ events[1] = Event("build", "ok", 0)
                        /\ events[2].stage = "send"
                        /\ events[2].outcome = "ok"
            s == LastEvent.val
        IN /\ ping_result = Ok(TRUE) <=> (answered /\ 200 <= s /\ s < 300)
           /\ ping_result = Ok(FALSE) <=> (answered /\ (s < 200 \/ s >= 300))
           /\ ~answered => ping_result.tag = "Err"
           /\ LastEvent.outcome = "timeout" => elapsed = timeout

\* a response with status 300 came in and the ping returned Ok(false)
C11_Witness ==
    /\ Returned
    /\ service_type = "HTTP"
    /\ LastEvent = Event("send", "ok", 300)
    /\ ping_result = Ok(FALSE)

(***************************************************************************)
(* Properties of the Config Adapter.                                       *)
(***************************************************************************)
\* the two characters are the same letter, whatever their case
SameLetter(c, d) ==
    \/ c = d
    \/ \E i \in DOMAIN Upper : { c, d } = { Upper[i], Lower[i] }

\* the two names are equal up to letter case
SameName(a, b) ==
    /\ Len(a) = Len(b)
    /\ \A i \in DOMAIN a : SameLetter(a[i], b[i])

\* the protocol names try_from knows, in lower case, each with its type
KnownNames ==
    { << << "t", "e", "a", "m", "s", "p", "e", "a", "k" >>, "TeamSpeak" >>,
      << << "t", "s" >>, "TeamSpeak" >>,
      << << "s", "s", "h" >>, "SSH" >>,
      << << "h", "t", "t", "p" >>, "HTTP" >> }

\* the conversion has run
Converted == try_from_result # NoResult

\* the status the wrapper was constructed with
FirstStatus == IF calls = << >> THEN last_status ELSE calls[1].before

\* C12: the conversion succeeds for every protocol name that is teamspeak,
\* ts, ssh or http in any letter case; the wrapper has the service type
\* TeamSpeak, TeamSpeak, SSH or HTTP, the record's remote_address and
\* report_uuid, and last_status Optional.
C12_KnownNameBuilds ==
    \A k \in KnownNames :
        (Converted /\ SameName(service.service_type, k[1])) =>
            /\ try_from_result = [tag |-> "Ok"]
            /\ service_type = k[2]
            /\ remote_address = service.remote_address
            /\ report_uuid = service.report_uuid
            /\ FirstStatus = "Optional"

\* the record named "TS" has been converted to a TeamSpeak wrapper
C12_Witness ==
    /\ service.service_type = << "T", "S" >>
    /\ try_from_result = [tag |-> "Ok"]
    /\ service_type = "TeamSpeak"
    /\ remote_address = service.remote_address
    /\ calls = << >> /\ last_status = "Optional"

\* C13: for every protocol name that is none of teamspeak, ts, ssh, http in
\* any letter case, the conversion fails with an error naming the name and
\* the report id, and no wrapper exists: no update_last_status and no ping
\* ever runs for the record.
C13_UnknownNameFails ==
    (\A k \in KnownNames : ~SameName(service.service_type, k[1])) =>
        /\ Converted =>
              try_from_result = [tag |-> "Err",
                                 service_type |-> service.service_type,
                                 report_uuid |-> service.report_uuid]
        /\ wrapper_vars = << "none", "none", "none", "none" >>
        /\ calls = << >>
        /\ pc = "idle" /\ probe = NoProbe /\ ping_result = NoResult

\* the record named "https" has been refused
C13_Witness ==
    /\ service.service_type = << "h", "t", "t", "p", "s" >>
    /\ try_from_result.tag = "Err"
    /\ try_from_result.service_type = << "h", "t", "t", "p", "s" >>
    /\ try_from_result.report_uuid = service.report_uuid

(***************************************************************************)
(* Properties of the status over sequences of calls.                       *)
(***************************************************************************)
\* C14: over any sequence of update_last_status calls last_status never
\* becomes Unknown: it is Unknown only as long as no call has changed it,
\* every change writes Optional or Outage, and Optional and Outage are each
\* reached from the other.
C14_UnknownNeverWritten ==
    \A i \in DOMAIN calls :
        /\ After(i) = "Unknown" =>
              \A j \in 1..i : calls[j].before = "Unknown" /\ calls[j].ret = FALSE
        /\ After(i) # calls[i].before =>
              /\ After(i) \in { "Optional", "Outage" }
              /\ { After(i), calls[i].before } # { "Optional", "Outage" } =>
                    calls[i].before = "Unknown"

\* a wrapper that started at Unknown went to Optional, on to Outage and back
\* to Optional
C14_Witness ==
    /\ Len(calls) = 3
    /\ calls[1].before = "Unknown"
    /\ calls[2].before = "Optional"
    /\ calls[3].before = "Outage"
    /\ last_status = "Optional"

\* C16: against a boolean, Optional equals true and not false, Outage
\* equals false and not true, Unknown equals false and not true.
C16_TriStateEquality ==
    /\ last_status = "Optional" => (eq(last_status, TRUE) /\ ~eq(last_status, FALSE))
    /\ last_status = "Outage" => (eq(last_status, FALSE) /\ ~eq(last_status, TRUE))
    /\ last_status = "Unknown" => (eq(last_status, FALSE) /\ ~eq(last_status, TRUE))
    /\ \A i \in DOMAIN calls :
          calls[i].ret = FALSE <=>
              \/ calls[i].before = "Optional" /\ calls[i].observed = TRUE
              \/ calls[i].before = "Outage" /\ calls[i].observed = FALSE
              \/ calls[i].before = "Unknown" /\ calls[i].observed = FALSE

\* a wrapper at Unknown was compared with false twice and found equal both times
C16_Witness ==
    /\ Len(calls) = 2
    /\ calls[1] = Call("Unknown", FALSE, FALSE)
    /\ calls[2] = Call("Unknown", FALSE, FALSE)
    /\ last_status = "Unknown"

\* the argument of the call before the i-th; true before the first
PrevObserved(i) == IF i = 1 THEN TRUE ELSE calls[i - 1].observed

\* C19: on a wrapper built by the Config Adapter, last_status is Optional
\* if no call was made or the latest call's argument was true, and Outage if
\* the latest call's argument was false; it is never Unknown.
C19_StatusIsLatestObserved ==
    Built =>
        /\ calls = << >> => last_status = "Optional"
        /\ \A i \in DOMAIN calls :
              /\ calls[i].observed = TRUE => After(i) = "Optional"
              /\ calls[i].observed = FALSE => After(i) = "Outage"
        /\ last_status # "Unknown"

\* after false, true, false the status is Outage
C19_Witness ==
    /\ Len(calls) = 3
    /\ calls[1].observed = FALSE
    /\ calls[2].observed = TRUE
    /\ calls[3].observed = FALSE
    /\ last_status = "Outage"

\* C20: on a wrapper built by the Config Adapter a call returns true
\* exactly when its argument differs from the argument of the call before
\* (true before the first call); so two calls that return true with no true
\* return between them carry opposite arguments, and there are as many true
\* returns as flips in the arguments.
C20_TrueIffFlip ==
    /\ \A i \in DOMAIN calls :
          calls[i].ret = (calls[i].observed # PrevObserved(i))
    /\ \A i, j \in DOMAIN calls :
          (/\ i < j
           /\ calls[i].ret /\ calls[j].ret
           /\ \A k \in (i + 1)..(j - 1) : ~calls[k].ret) =>
              calls[i].observed # calls[j].observed
    /\ Cardinality({ i \in DOMAIN calls : calls[i].ret })
          = Cardinality({ i \in DOMAIN calls : calls[i].observed # PrevObserved(i) })

\* true, false, false: only the second call, the one flip, returned true
C20_Witness ==
    /\ Len(calls) = 3
    /\ calls[1].observed = TRUE /\ calls[1].ret = FALSE
    /\ calls[2].observed = FALSE /\ calls[2].ret = TRUE
    /\ calls[3].observed = FALSE /\ calls[3].ret = FALSE

(***************************************************************************)
(* Properties of ping on a wrapper.                                        *)
(***************************************************************************)
\* a step of a ping: its call, one of its awaited steps, or a second going by
PingStep == ping_vars' # ping_vars

\* a call of update_last_status
UpdateStep == Len(calls') = Len(calls) + 1 /\ ping_vars' = ping_vars

\* C15: over any sequence of ping and update_last_status calls on a wrapper
\* remote_address, report_uuid and service_type never change and
\* last_status changes only in an update_last_status step; a ping, whatever
\* it returns, leaves every field of the wrapper unchanged.
C15_PingWritesNothing ==
    [][Built =>
          /\ remote_address' = remote_address
          /\ report_uuid' = report_uuid
          /\ service_type' = service_type
          /\ last_status' # last_status => UpdateStep
          /\ PingStep => wrapper_vars' = wrapper_vars]_vars

\* a ping has returned an error after a call had set the status to Outage,
\* and the wrapper holds that status and the fields it was built with
C15_Witness ==
    /\ Returned
    /\ ping_result.tag = "Err"
    /\ Len(calls) = 1 /\ calls[1].ret = TRUE
    /\ last_status = "Outage"
    /\ remote_address = service.remote_address
    /\ report_uuid = service.report_uuid
    /\ service_type = "HTTP"

\* the stages of the SSH probe, in the order of the code
SshStages == << "connect", "write_all", "read" >>

\* the stages of this ping that have been started
Started == IF pc = "idle" THEN Len(events) ELSE Len(events) + 1

\* C17: within one SSH ping the three stages run one after the other and
\* each at most once: the banner write starts only after the connect
\* succeeded, the read only after the write succeeded, a stage that fails
\* or times out ends the ping, and each stage has its own timeout of
\* timeout seconds, so the ping takes at most three timeout periods.
C17_SshStagesInOrder ==
    service_type = "SSH" =>
        /\ Len(events) <= 3
        /\ \A i \in DOMAIN events :
              /\ events[i].stage = SshStages[i]
              /\ i < Len(events) => events[i].outcome = "ok"
        /\ pc \in { "idle", "ssh_connect", "ssh_write", "ssh_read" }
        /\ pc = "ssh_connect" => Len(events) = 0
        /\ pc = "ssh_write" => Len(events) = 1 /\ LastEvent.outcome = "ok"
        /\ pc = "ssh_read" => Len(events) = 2 /\ LastEvent.outcome = "ok"
        /\ (events # << >> /\ LastEvent.outcome # "ok") => pc = "idle"
        /\ Len(events) = 3 => pc = "idle"
        /\ elapsed <= timeout
        /\ total <= Started * timeout
        /\ total <= 3 * timeout

\* an SSH ping with timeout 1 went through all three stages, each ending
\* only at its own deadline: three seconds in all
C17_Witness ==
    /\ Returned
    /\ service_type = "SSH"
    /\ Len(events) = 3
    /\ timeout = 1
    /\ total = 3

\* the stages each probe consists of
StagesOf(t) ==
    CASE t = "HTTP" -> { "build", "send" }
      [] t = "SSH" -> { "connect", "write_all", "read" }
      [] t = "TeamSpeak" -> { "bind", "send_to", "recv_from" }

\* C18: the wrapper's ping gives exactly the outcome of the probe that
\* matches its service_type, run against its remote_address: an HTTP wrapper
\* runs only the HTTP probe, an SSH wrapper only the SSH probe, a TeamSpeak
\* wrapper only the TeamSpeak probe, and a probe's error is never turned
\* into Ok(false).
C18_PingIsTheProbe ==
    (Built /\ probe # NoProbe) =>
        /\ probe.kind = service_type
        /\ probe.remote_address = remote_address
        /\ \A i \in DOMAIN events : events[i].stage \in StagesOf(service_type)
        /\ ping_result = probe.result
        /\ probe.result.tag = "Err" => ping_result.tag = "Err"
        /\ service_type = "TeamSpeak" => sent \in { << >>, TS_HEAD_DATA }
        /\ service_type = "SSH" => sent \in { << >>, SSH_HEAD_DATA }
        /\ service_type = "HTTP" => sent = << >>

\* the TeamSpeak probe of a TeamSpeak wrapper failed to bind, and the
\* wrapper's ping returned that error
C18_Witness ==
    /\ Returned
    /\ service_type = "TeamSpeak"
    /\ probe.kind = "TeamSpeak"
    /\ probe.remote_address = service.remote_address
    /\ LastEvent = Event("bind", "io_error", 0)
    /\ probe.result = Err("Io")
    /\ ping_result = Err("Io")

====
